---------------------------- MODULE Spec2Model ----------------------------
(***************************************************************************)
(* Task manager backend: the task routes (src/src/routes/tasks.js), the    *)
(* Task model, the Redis listing cache and the error handler.              *)
(*                                                                         *)
(* Every request runs in a slot.  A handler is cut at its awaits: one step *)
(* per Store call and per Cache call, each step being the call's effect    *)
(* together with the synchronous code that led to it; the last step of a   *)
(* handler sends the response.                                             *)
(***************************************************************************)
EXTENDS Integers, Sequences, FiniteSets, TLC

(* ------------------------------ bounds -------------------------------- *)

\* request slots: how many handlers can be in flight at once
MaxReq == 2
\* identifiers the UUID generator can hand out
MaxIds == 2
\* clock advances in a run
MaxTicks == 2

(* ------------------------- program constants -------------------------- *)

CACHE_KEY == "tasks:all"
CACHE_TTL == 300
\* len: { args: [1, 255] } of Task.title
TitleMin == 1
TitleMax == 255

(* ------------------------------ strings ------------------------------- *)
\* A string is a sequence of runs [c, n]: the chunk c repeated n times.  A
\* chunk is one character (" " is whitespace) or, for the status words,
\* a whole word without whitespace.

Run(c, n) == [c |-> c, n |-> n]
IsWs(c) == c = " "

RECURSIVE StrLen(_)
StrLen(s) == IF s = <<>> THEN 0 ELSE Head(s).n + StrLen(Tail(s))

RECURSIVE TrimStart(_)
TrimStart(s) ==
    IF s = <<>> THEN s
    ELSE IF IsWs(Head(s).c) THEN TrimStart(Tail(s))
    ELSE s

RECURSIVE TrimEnd(_)
TrimEnd(s) ==
    IF s = <<>> THEN s
    ELSE IF IsWs(s[Len(s)].c) THEN TrimEnd(SubSeq(s, 1, Len(s) - 1))
    ELSE s

\* trimStart in the place of trim
Trim_StartOnly(s) == TrimStart(s)

\* String.prototype.trim
Trim(s) == TrimEnd(TrimStart(s))

EmptyStr == <<>>
Word(w) == <<Run(w, 1)>>
Chars(c, n) == <<Run(c, n)>>
Padded(s) == <<Run(" ", 2)>> \o s \o <<Run(" ", 2)>>

(* ----------------------------- JS values ------------------------------ *)

Undefined == [t |-> "undefined", s |-> <<>>, n |-> 0]
Null == [t |-> "null", s |-> <<>>, n |-> 0]
Str(s) == [t |-> "string", s |-> s, n |-> 0]
Num(k) == [t |-> "number", s |-> <<>>, n |-> k]
Bool(b) == [t |-> "boolean", s |-> <<>>, n |-> IF b THEN 1 ELSE 0]

IsString(v) == v.t = "string"
IsNullish(v) == v.t \in {"undefined", "null"}

\* ToBoolean, as used by !title and status || 'pending'
Truthy(v) ==
    CASE v.t = "string" -> StrLen(v.s) > 0
      [] v.t = "number" -> v.n # 0
      [] v.t = "boolean" -> v.n = 1
      [] OTHER -> FALSE

Body(title, description, status) ==
    [title |-> title, description |-> description, status |-> status]
NoBody == Body(Undefined, Undefined, Undefined)

(* ---------------------------- identifiers ----------------------------- *)
\* Well-formed UUIDs are the positive numbers 1..MaxIds + 1; the generator
\* hands out 1..MaxIds, so MaxIds + 1 is a well-formed id that names no task
\* ever.  BadId stands for a path segment such as 'not-a-uuid'.

UUIDs == 1 .. (MaxIds + 1)
GenIds == 1 .. MaxIds
BadId == 0
IsUUID(x) == x \in UUIDs

(* ------------------------------- rows --------------------------------- *)

Row(id, title, description, status, createdAt, updatedAt) ==
    [id |-> id, title |-> title, description |-> description,
     status |-> status, createdAt |-> createdAt, updatedAt |-> updatedAt]

Pending == Word("pending")
Completed == Word("completed")
\* DataTypes.ENUM('pending', 'completed')
StatusEnum == {Pending, Completed}

\* Date.prototype.toJSON: a Date becomes its ISO-8601 string
ToISO(t) == [iso |-> t]

\* Model.prototype.toJSON followed by JSON.stringify of one Task
TaskToJSON(row) ==
    [id |-> row.id, title |-> row.title, description |-> row.description,
     status |-> row.status, createdAt |-> ToISO(row.createdAt),
     updatedAt |-> ToISO(row.updatedAt)]

\* A JSON text is kept as [json |-> the sequence of the array's objects].
\* JSON.stringify(tasks), tasks an array of Task instances
JSONStringify(tasks) ==
    [json |-> [i \in 1 .. Len(tasks) |-> TaskToJSON(tasks[i])]]

\* the parsed array sorted again, which turns it around
JSONParse_Resorted(text) ==
    [i \in 1 .. Len(text.json) |-> text.json[Len(text.json) + 1 - i]]

\* JSON.parse(cached): the array of plain objects, dates left as strings
JSONParse(text) == text.json

\* JSON.stringify of an array of plain objects (every field is a string
\* already), as res.json does with the parsed cache content
JSONOfPlain(objs) == [json |-> objs]

(* ----------------------------- responses ------------------------------ *)

Resp(status, kind, json, error) ==
    [status |-> status, kind |-> kind, json |-> json, error |-> error]
NoResp == Resp(0, "none", <<>>, "")
\* res.json(tasks) / res.json(JSON.parse(cached))
RespArray(text) == Resp(200, "array", text.json, "")
\* res.json(task) / res.status(201).json(task)
RespTask(status, row) == Resp(status, "task", <<TaskToJSON(row)>>, "")
RespError(status, error) == Resp(status, "error", <<>>, error)
RespMessage(msg) == Resp(200, "message", <<>>, msg)

\* the 404 sent as a 400
RespNotFound_BadRequest == RespError(400, "Task not found")

\* res.status(404).json({ error: 'Task not found' })
RespNotFound == RespError(404, "Task not found")
\* res.status(400).json({ error: 'Title is required' })
RespTitleRequired == RespError(400, "Title is required")
\* res.status(400).json({ error: 'Invalid status' })
RespInvalidStatus == RespError(400, "Invalid status")
\* the 201 built from the arguments of the call, not from the saved task
RespCreated_Unsaved(row) == RespTask(201, [row EXCEPT !.id = BadId])

\* res.status(201).json(task)
RespCreated(row) == RespTask(201, row)
\* res.json({ message: 'Task deleted successfully' })
RespDeleted == RespMessage("Task deleted successfully")

\* an error handler that knows no Sequelize error by name
errorHandler_NoNames(name) == RespError(500, "Internal server error")

\* src/src/middleware/errorHandler.js
errorHandler(name) ==
    IF name = "SequelizeValidationError" THEN RespError(400, "Validation error")
    ELSE IF name = "SequelizeDatabaseError" THEN RespError(400, "Database error")
    ELSE RespError(500, "Internal server error")

(* ------------------------------ the store ----------------------------- *)
\* The tasks table: a function from the ids of the rows to the rows.

Rows(st) == {st[i] : i \in DOMAIN st}

Insert(st, row) ==
    [i \in DOMAIN st \cup {row.id} |-> IF i = row.id THEN row ELSE st[i]]

Remove(st, id) == [i \in DOMAIN st \ {id} |-> st[i]]

\* ORDER BY "createdAt" ASC
IsDesc_Asc(tasks) ==
    \A i \in 1 .. Len(tasks) - 1 : tasks[i].createdAt <= tasks[i + 1].createdAt

\* ORDER BY "createdAt" DESC
IsDesc(tasks) ==
    \A i \in 1 .. Len(tasks) - 1 : tasks[i].createdAt >= tasks[i + 1].createdAt

\* a read that is not one snapshot of the table: rows can be missed
Listings_Torn(st) ==
    LET subs == SUBSET DOMAIN st
        perms(d) == {f \in [1 .. Cardinality(d) -> d] :
                        \A i, j \in 1 .. Cardinality(d) : i # j => f[i] # f[j]}
    IN  {t \in UNION {{[i \in 1 .. Cardinality(d) |-> st[f[i]]] : f \in perms(d)}
                        : d \in subs} : IsDesc(t)}

\* the orders in which SELECT ... ORDER BY "createdAt" DESC can return the
\* table: rows of equal createdAt come in any order
Listings(st) ==
    LET n == Cardinality(DOMAIN st)
        perms == {f \in [1 .. n -> DOMAIN st] :
                     \A i, j \in 1 .. n : i # j => f[i] # f[j]}
    IN  {t \in {[i \in 1 .. n |-> st[f[i]]] : f \in perms} : IsDesc(t)}

\* the validators of title with the upper limit only
TitleValid_MaxOnly(s) == StrLen(s) <= TitleMax

\* the Task model's validators of title: notEmpty and len [1, 255]
TitleValid(s) ==
    /\ Trim(s) # EmptyStr
    /\ StrLen(s) >= TitleMin
    /\ StrLen(s) <= TitleMax

\* a status column of type text: every string is accepted
InEnum_AnyString(v) == IsString(v)

\* a value the status column accepts
InEnum(v) == IsString(v) /\ v.s \in StatusEnum

(* ------------------------------ the cache ----------------------------- *)
\* The one Redis key: val is <<>> (no key) or <<text>>, exp its expiry; at
\* records the time of the setEx that wrote it.

NoEntry == [val |-> <<>>, exp |-> 0, at |-> 0]

\* a key whose expiry is counted in a unit longer than the second
Entry_LongerUnit(text, exp) == [val |-> <<text>>, exp |-> 2 * exp, at |-> 0]

Entry(text, exp) == [val |-> <<text>>, exp |-> exp, at |-> 0]

(* ------------------------------- state -------------------------------- *)

VARIABLES
    store,      \* the tasks table
    usedIds,    \* the ids the UUID generator has handed out
    inserted,   \* the ids of the rows in the order of their INSERTs
    cache,      \* the Redis key tasks:all
    isOpen,     \* redisClient.isOpen
    clock,      \* [now: the time, ticks: how often it advanced]
    rq,         \* the request slots: program counter, request, locals
    watch       \* the first successful mutation and the List that follows it

vars == <<store, usedIds, inserted, cache, isOpen, clock, rq, watch>>

Reqs == 1 .. MaxReq
now == clock.now

\* A slot.  pc is the call the handler waits on.  task is the loaded or
\* created instance (<<>> for null), loaded its values as read from the
\* store, tasks the result of findAll, out the response.  The other fields
\* record what the request did: reads and writes count its Store queries
\* and its committed Store writes, fault says that a Store query failed,
\* clears counts the clearCache calls, del is how its del command ended
\* ("none": not sent), hit and seen are the cache read, put what setEx
\* wrote, found the result of findByPk ("row"; "null", or "gone" when the
\* id was a deleted task's), preSnap the cache content when its write
\* committed, mark that this is the List the watch follows, keyAtResp and
\* listAtResp the cache key and the Lists in flight when it responded,
\* missed that its UPDATE found no row to change, sent the number of
\* responses written to the client.
Idle ==
    [pc |-> "idle", op |-> "none", id |-> BadId, body |-> NoBody,
     task |-> <<>>, loaded |-> <<>>, tasks |-> <<>>, out |-> NoResp,
     reads |-> 0, writes |-> 0, fault |-> FALSE, clears |-> 0,
     del |-> "none", hit |-> FALSE, seen |-> <<>>, put |-> <<>>,
     found |-> "none",
     preSnap |-> <<>>, mark |-> FALSE, keyAtResp |-> FALSE,
     listAtResp |-> FALSE, missed |-> FALSE, sent |-> 0]

\* phase is "idle" until a mutation that changed the Store has responded,
\* then "pending" until the next List arrives, then "marked"; snap is the
\* cache content at the moment that mutation's write committed
NoWatch == [phase |-> "idle", snap |-> <<>>]

Init ==
    /\ store = <<>>
    /\ usedIds = {}
    /\ inserted = <<>>
    /\ cache = NoEntry
    /\ isOpen \in BOOLEAN
    /\ clock = [now |-> 0, ticks |-> 0]
    /\ rq = [r \in Reqs |-> Idle]
    /\ watch = NoWatch

\* A profile says what a specification lets happen: the slots in use, the
\* request ids and bodies sent, whether Store and Cache calls can fail, and
\* whether the watch is kept.
Profile(reqs, ids, creates, updates, storeFaults, cacheFaults, track) ==
    [reqs |-> reqs, ids |-> ids, creates |-> creates, updates |-> updates,
     storeFaults |-> storeFaults, cacheFaults |-> cacheFaults,
     track |-> track]

\* the ways a Store query can end: it runs, the connection fails ("fail"),
\* or the database fails the statement for a reason that is not in the
\* request's data ("error": a missing table, a cancelled statement)
StoreOutcomes(P) == IF P.storeFaults THEN {"ok", "fail", "error"} ELSE {"ok"}

\* the name of the error Sequelize throws for a failed query
StoreError(o) ==
    IF o = "fail" THEN "SequelizeConnectionError" ELSE "SequelizeDatabaseError"
\* the ways a Redis command can end: it runs, or it rejects
CacheOutcomes(P) == IF P.cacheFaults THEN {"ok", "throw"} ELSE {"ok"}

\* redisClient.get(CACHE_KEY): null for a missing or expired key
RedisGet == IF cache.val # <<>> /\ now < cache.exp THEN cache.val ELSE <<>>

\* what the watch records when a write commits: the cache content, if the
\* write changed the table and no mutation has been recorded yet
PreSnap(P, before, after) ==
    IF P.track /\ watch.phase = "idle" /\ before # after THEN RedisGet ELSE <<>>

\* a catch block that logs the error and does not call next(error): the
\* handler ends and nothing is sent
Throw_Swallowed(slot, name) == [slot EXCEPT !.pc = "hung"]

\* catch (error) { next(error) }: the error handler's response is sent
Throw(slot, name) == [slot EXCEPT !.pc = "respond", !.out = errorHandler(name)]

\* a handler that invalidates the cache before every response it sends
Send_AfterClearing(slot, response) ==
    [slot EXCEPT !.pc = "clearCache", !.out = response]

\* return res.status(..).json(..) / res.json(..)
Send(slot, response) == [slot EXCEPT !.pc = "respond", !.out = response]

(* ----------------------------- GET /tasks ----------------------------- *)

\* the request arrives
ListStart(r) ==
    /\ rq[r].pc = "idle"
    /\ rq' = [rq EXCEPT ![r] = [Idle EXCEPT !.pc = "get", !.op = "list",
                  !.mark = (watch.phase = "pending")]]
    /\ watch' = IF watch.phase = "pending"
                THEN [watch EXCEPT !.phase = "marked"] ELSE watch
    /\ UNCHANGED <<store, usedIds, inserted, cache, isOpen, clock>>

\* lines 21-26: the cache read
ListGet(r, P) ==
    /\ rq[r].pc = "get"
    /\ \E o \in CacheOutcomes(P) :
         rq' = [rq EXCEPT ![r] =
            IF ~isOpen THEN [@ EXCEPT !.pc = "findAll"]
            ELSE IF o = "throw" THEN Throw(@, "Error")
            ELSE IF RedisGet # <<>>
                 THEN [Send(@, RespArray(JSONOfPlain(JSONParse(RedisGet[1]))))
                          EXCEPT !.hit = TRUE, !.seen = RedisGet]
            ELSE [@ EXCEPT !.pc = "findAll"]]
    /\ UNCHANGED <<store, usedIds, inserted, cache, isOpen, clock, watch>>

\* lines 28-30: Task.findAll({ order: [['createdAt', 'DESC']] })
ListFindAll(r, P) ==
    /\ rq[r].pc = "findAll"
    /\ \E o \in StoreOutcomes(P) : \E tasks \in Listings(store) :
         rq' = [rq EXCEPT ![r] =
            IF o # "ok"
            THEN [Throw(@, StoreError(o))
                     EXCEPT !.reads = @ + 1, !.fault = TRUE]
            ELSE [@ EXCEPT !.pc = "setEx", !.tasks = tasks, !.reads = @ + 1]]
    /\ UNCHANGED <<store, usedIds, inserted, cache, isOpen, clock, watch>>

\* lines 32-36: the cache write, then res.json(tasks)
ListSetEx(r, P) ==
    /\ rq[r].pc = "setEx"
    /\ \E o \in CacheOutcomes(P) :
         LET text == JSONStringify(rq[r].tasks)
             exp == now + CACHE_TTL
         IN  IF ~isOpen
             THEN /\ rq' = [rq EXCEPT ![r] = Send(@, RespArray(text))]
                  /\ UNCHANGED cache
             ELSE IF o = "throw"
             THEN /\ rq' = [rq EXCEPT ![r] = Throw(@, "Error")]
                  /\ UNCHANGED cache
             ELSE /\ rq' = [rq EXCEPT ![r] =
                        [Send(@, RespArray(text)) EXCEPT
                            !.put = <<[text |-> text, ttl |-> CACHE_TTL]>>]]
                  /\ cache' = [Entry(text, exp) EXCEPT !.at = now]
    /\ UNCHANGED <<store, usedIds, inserted, isOpen, clock, watch>>


(* ------------------------- lookups by primary key --------------------- *)

\* lines 85-94 of PATCH: the body's fields are put into the loaded task.
\* kind is "throw" (a TypeError: .trim of a value that has none), "invalid"
\* (the 400 of line 91) or "save"; row is the task as assigned so far.
UpdateAssign(row, body) ==
    LET t == body.title
        d == body.description
        st == body.status
        row1 == IF t.t = "undefined" THEN row
                ELSE [row EXCEPT !.title = Trim(t.s)]
        row2 == IF d.t = "undefined" THEN row1
                ELSE [row1 EXCEPT !.description = Trim(d.s)]
    IN  IF t.t # "undefined" /\ ~IsString(t)
            THEN [kind |-> "throw", row |-> row]
        ELSE IF d.t # "undefined" /\ ~IsString(d)
            THEN [kind |-> "throw", row |-> row1]
        ELSE IF st.t # "undefined" /\ ~InEnum(st)
            THEN [kind |-> "invalid", row |-> row2]
        ELSE IF st.t # "undefined"
            THEN [kind |-> "save", row |-> [row2 EXCEPT !.status = st.s]]
        ELSE [kind |-> "save", row |-> row2]

\* a Get that looks for the task in the cached listing first
GetFound_FromListing(slot, row) ==
    LET objs == IF RedisGet = <<>> THEN {}
                ELSE {RedisGet[1].json[k] : k \in 1 .. Len(RedisGet[1].json)}
        mine == {o \in objs : o.id = row.id}
    IN  IF mine = {}
        THEN [Send(slot, RespTask(200, row)) EXCEPT !.found = "row"]
        ELSE [Send(slot, Resp(200, "task", <<CHOOSE o \in mine : TRUE>>, ""))
                 EXCEPT !.found = "row"]

\* lines 46-50 of GET /tasks/:id: res.json(task), the row just loaded
GetFound(slot, row) == [Send(slot, RespTask(200, row)) EXCEPT !.found = "row"]

\* Task.findByPk(req.params.id) of GET, PATCH and DELETE /tasks/:id and the
\* code up to the next call.  An id that is no UUID is sent to the Store
\* like any other, and the Store rejects the query.
FindByPk(r, P) ==
    /\ rq[r].pc = "findByPk"
    /\ \E o \in StoreOutcomes(P) :
         LET id == rq[r].id
             slot == [rq[r] EXCEPT !.reads = @ + 1]
             row == store[id]
             a == UpdateAssign(row, rq[r].body)
         IN  rq' = [rq EXCEPT ![r] =
                IF o # "ok"
                    THEN [Throw(slot, StoreError(o)) EXCEPT !.fault = TRUE]
                ELSE IF ~IsUUID(id) THEN Throw(slot, "SequelizeDatabaseError")
                ELSE IF id \notin DOMAIN store
                    THEN [Send(slot, RespNotFound) EXCEPT
                             !.found = IF id \in usedIds THEN "gone" ELSE "null"]
                ELSE IF rq[r].op = "get"
                    THEN GetFound(slot, row)
                ELSE IF rq[r].op = "delete"
                    THEN [slot EXCEPT !.pc = "destroy", !.task = <<row>>,
                                      !.loaded = <<row>>, !.found = "row"]
                ELSE IF a.kind = "throw"
                    THEN [Throw(slot, "TypeError") EXCEPT !.found = "row"]
                ELSE IF a.kind = "invalid"
                    THEN [Send(slot, RespInvalidStatus)
                             EXCEPT !.found = "row"]
                ELSE [slot EXCEPT !.pc = "save", !.task = <<a.row>>,
                                  !.loaded = <<row>>, !.found = "row"]]
    /\ UNCHANGED <<store, usedIds, inserted, cache, isOpen, clock, watch>>

(* --------------------------- GET /tasks/:id --------------------------- *)

GetStart(r, P) ==
    /\ rq[r].pc = "idle"
    /\ \E id \in P.ids :
         rq' = [rq EXCEPT ![r] =
                   [Idle EXCEPT !.pc = "findByPk", !.op = "get", !.id = id]]
    /\ UNCHANGED <<store, usedIds, inserted, cache, isOpen, clock, watch>>

(* ----------------------------- POST /tasks ---------------------------- *)

\* lines 58-68: the title check and the arguments of Task.create.  kind is
\* "required" (the 400 of line 61), "throw" (a TypeError) or "call".
CreateArgs(body) ==
    LET t == body.title
        d == body.description
        st == body.status
        none == [kind |-> "required", title |-> EmptyStr,
                 description |-> EmptyStr, status |-> Undefined]
    IN  IF ~Truthy(t) THEN none
        ELSE IF ~IsString(t) THEN [none EXCEPT !.kind = "throw"]
        ELSE IF Trim(t.s) = EmptyStr THEN none
        ELSE IF ~IsNullish(d) /\ ~IsString(d) THEN [none EXCEPT !.kind = "throw"]
        ELSE [kind |-> "call",
              title |-> Trim(t.s),
              description |-> IF IsNullish(d) THEN EmptyStr ELSE Trim(d.s),
              status |-> IF Truthy(st) THEN st ELSE Str(Pending)]

\* the requests whose Task.create has not returned yet
Creating == {q \in Reqs : rq[q].pc = "create"}

\* the request arrives: lines 58-62
CreateStart(r, P) ==
    /\ rq[r].pc = "idle"
    /\ Cardinality(usedIds) + Cardinality(Creating) < MaxIds
    /\ \E b \in P.creates :
         LET slot == [Idle EXCEPT !.op = "create", !.body = b]
             a == CreateArgs(b)
         IN  rq' = [rq EXCEPT ![r] =
                IF a.kind = "required"
                    THEN Send(slot, RespTitleRequired)
                ELSE IF a.kind = "throw" THEN Throw(slot, "TypeError")
                ELSE [slot EXCEPT !.pc = "create"]]
    /\ UNCHANGED <<store, usedIds, inserted, cache, isOpen, clock, watch>>

\* a generator that hands out the ids no row has now
NewIds_Recycled == GenIds \ DOMAIN store

\* defaultValue: DataTypes.UUIDV4: an id never handed out before
NewIds == GenIds \ usedIds

\* lines 64-68: Task.create: the model's validators, then the INSERT
TaskCreate(r, P) ==
    /\ rq[r].pc = "create"
    /\ \E o \in StoreOutcomes(P) : \E id \in NewIds :
         LET a == CreateArgs(rq[r].body)
             row == Row(id, a.title, a.description, a.status.s, now, now)
         IN  IF ~TitleValid(a.title)
             THEN /\ rq' = [rq EXCEPT ![r] = Throw(@, "SequelizeValidationError")]
                  /\ UNCHANGED <<store, usedIds, inserted>>
             ELSE IF o # "ok"
             THEN /\ rq' = [rq EXCEPT ![r] =
                        [Throw(@, StoreError(o))
                            EXCEPT !.reads = @ + 1, !.fault = TRUE]]
                  /\ UNCHANGED <<store, usedIds, inserted>>
             ELSE IF ~InEnum(a.status)
             THEN /\ rq' = [rq EXCEPT ![r] =
                        [Throw(@, "SequelizeDatabaseError") EXCEPT !.reads = @ + 1]]
                  /\ UNCHANGED <<store, usedIds, inserted>>
             ELSE /\ store' = Insert(store, row)
                  /\ usedIds' = usedIds \cup {id}
                  /\ inserted' = Append(inserted, id)
                  /\ rq' = [rq EXCEPT ![r] =
                        [@ EXCEPT !.pc = "clearCache", !.task = <<row>>,
                                  !.out = RespCreated(row),
                                  !.reads = @ + 1, !.writes = @ + 1,
                                  !.preSnap = PreSnap(P, store, store')]]
    /\ UNCHANGED <<cache, isOpen, clock, watch>>

(* --------------------------- PATCH /tasks/:id ------------------------- *)

UpdateStart(r, P) ==
    /\ rq[r].pc = "idle"
    /\ \E id \in P.ids : \E b \in P.updates :
         rq' = [rq EXCEPT ![r] =
                   [Idle EXCEPT !.pc = "findByPk", !.op = "update",
                                !.id = id, !.body = b]]
    /\ UNCHANGED <<store, usedIds, inserted, cache, isOpen, clock, watch>>

\* the attributes save() writes: those whose value differs from the loaded one
Changed(task, loaded) ==
    {f \in {"title", "description", "status"} : task[f] # loaded[f]}

\* UPDATE of every column of the instance, changed or not
UpdateRow_AllColumns(st, task, loaded, t) ==
    IF task.id \notin DOMAIN st THEN st
    ELSE [st EXCEPT ![task.id] =
             [task EXCEPT !.createdAt = st[task.id].createdAt,
                          !.updatedAt = t]]

\* the row replaced by the instance, as an upsert does: createdAt is set anew
UpdateRow_Replace(st, task, loaded, t) ==
    IF task.id \notin DOMAIN st THEN st
    ELSE [st EXCEPT ![task.id] = [task EXCEPT !.createdAt = t, !.updatedAt = t]]

\* an upsert: the instance is inserted when its row is gone
UpdateRow_Upsert(st, task, loaded, t) ==
    IF task.id \notin DOMAIN st
    THEN Insert(st, [task EXCEPT !.updatedAt = t])
    ELSE [st EXCEPT ![task.id] =
             [f \in DOMAIN @ |->
                 IF f \in Changed(task, loaded) THEN task[f]
                 ELSE IF f = "updatedAt" THEN t
                 ELSE @[f]]]

\* UPDATE tasks SET <changed columns>, "updatedAt" WHERE id: no row, no effect
UpdateRow(st, task, loaded, t) ==
    IF task.id \notin DOMAIN st THEN st
    ELSE [st EXCEPT ![task.id] =
             [f \in DOMAIN @ |->
                 IF f \in Changed(task, loaded) THEN task[f]
                 ELSE IF f = "updatedAt" THEN t
                 ELSE @[f]]]

\* line 96: task.save(): nothing changed, nothing written; else the
\* validators of the changed attributes, then the UPDATE
TaskSave(r, P) ==
    /\ rq[r].pc = "save"
    /\ \E o \in StoreOutcomes(P) :
         LET task == rq[r].task[1]
             loaded == rq[r].loaded[1]
             saved == [task EXCEPT !.updatedAt = now]
         IN  IF Changed(task, loaded) = {}
             THEN /\ rq' = [rq EXCEPT ![r] =
                        [@ EXCEPT !.pc = "clearCache", !.out = RespTask(200, task)]]
                  /\ UNCHANGED store
             ELSE IF "title" \in Changed(task, loaded) /\ ~TitleValid(task.title)
             THEN /\ rq' = [rq EXCEPT ![r] = Throw(@, "SequelizeValidationError")]
                  /\ UNCHANGED store
             ELSE IF o # "ok"
             THEN /\ rq' = [rq EXCEPT ![r] =
                        [Throw(@, StoreError(o))
                            EXCEPT !.reads = @ + 1, !.fault = TRUE]]
                  /\ UNCHANGED store
             ELSE /\ store' = UpdateRow(store, task, loaded, now)
                  /\ rq' = [rq EXCEPT ![r] =
                        [@ EXCEPT !.pc = "clearCache", !.task = <<saved>>,
                                  !.out = RespTask(200, saved),
                                  !.reads = @ + 1, !.writes = @ + 1,
                                  !.missed = (task.id \notin DOMAIN store),
                                  !.preSnap = PreSnap(P, store, store')]]
    /\ UNCHANGED <<usedIds, inserted, cache, isOpen, clock, watch>>

(* -------------------------- DELETE /tasks/:id ------------------------- *)

DeleteStart(r, P) ==
    /\ rq[r].pc = "idle"
    /\ \E id \in P.ids :
         rq' = [rq EXCEPT ![r] =
                   [Idle EXCEPT !.pc = "findByPk", !.op = "delete", !.id = id]]
    /\ UNCHANGED <<store, usedIds, inserted, cache, isOpen, clock, watch>>

\* line 113: task.destroy(): DELETE FROM tasks WHERE id
TaskDestroy(r, P) ==
    /\ rq[r].pc = "destroy"
    /\ \E o \in StoreOutcomes(P) :
         IF o # "ok"
         THEN /\ rq' = [rq EXCEPT ![r] =
                    [Throw(@, StoreError(o))
                            EXCEPT !.reads = @ + 1, !.fault = TRUE]]
              /\ UNCHANGED store
         ELSE /\ store' = IF rq[r].id \in DOMAIN store
                          THEN Remove(store, rq[r].id) ELSE store
              /\ rq' = [rq EXCEPT ![r] =
                    [@ EXCEPT !.pc = "clearCache",
                              !.out = RespDeleted,
                              !.reads = @ + 1, !.writes = @ + 1,
                              !.preSnap = PreSnap(P, store, store')]]
    /\ UNCHANGED <<usedIds, inserted, cache, isOpen, clock, watch>>

(* ------------------------ cache invalidation -------------------------- *)

\* a del of another key
RedisDel_OtherKey == cache

\* redisClient.del(CACHE_KEY)
RedisDel == NoEntry

\* clearCache that sends del without looking at isOpen: the closed client
\* rejects the command, and the error reaches the handler
Cleared_NoOpenCheck(slot, del) ==
    IF del = "none"
    THEN [slot EXCEPT !.pc = "respond", !.clears = @ + 1, !.del = "threw",
                      !.out = errorHandler("ClientClosedError")]
    ELSE [slot EXCEPT !.pc = "respond", !.clears = @ + 1, !.del = del]

\* clearCache without its try/catch: del's error reaches the handler
Cleared_Rethrows(slot, del) ==
    IF del = "threw"
    THEN [slot EXCEPT !.pc = "respond", !.clears = @ + 1, !.del = del,
                      !.out = errorHandler("Error")]
    ELSE [slot EXCEPT !.pc = "respond", !.clears = @ + 1, !.del = del]

\* clearCache() has returned: the handler goes on to its response
Cleared(slot, del) ==
    [slot EXCEPT !.pc = "respond", !.clears = @ + 1, !.del = del]

\* lines 9-17: clearCache(): del when the client is open; an error of del
\* is logged and dropped
clearCache(r, P) ==
    /\ rq[r].pc = "clearCache"
    /\ \E o \in CacheOutcomes(P) :
         IF ~isOpen
         THEN /\ rq' = [rq EXCEPT ![r] = Cleared(@, "none")]
              /\ UNCHANGED cache
         ELSE IF o = "throw"
         THEN /\ rq' = [rq EXCEPT ![r] = Cleared(@, "threw")]
              /\ UNCHANGED cache
         ELSE /\ rq' = [rq EXCEPT ![r] = Cleared(@, "ok")]
              /\ cache' = RedisDel
    /\ UNCHANGED <<store, usedIds, inserted, isOpen, clock, watch>>

(* ----------------------------- responses ------------------------------ *)

Mutations == {"create", "update", "delete"}
InFlight(q) == rq[q].pc \notin {"idle", "done"}
Succeeded(slot) == slot.out.status \in {200, 201}

\* the response leaves: res.json / res.status(..).json, or the error handler
Respond(r, P) ==
    /\ rq[r].pc = "respond"
    /\ rq' = [rq EXCEPT ![r] =
          [@ EXCEPT !.pc = "done", !.sent = @ + 1,
                    !.keyAtResp = RedisGet # <<>>,
                    !.listAtResp = \E q \in Reqs \ {r} :
                                       rq[q].op = "list" /\ InFlight(q)]]
    /\ watch' = IF /\ P.track /\ watch.phase = "idle"
                   /\ rq[r].op \in Mutations /\ Succeeded(rq[r])
                   /\ rq[r].preSnap # <<>>
                THEN [phase |-> "pending", snap |-> rq[r].preSnap]
                ELSE watch
    /\ UNCHANGED <<store, usedIds, inserted, cache, isOpen, clock>>

\* the client has its response; the slot takes the next request
Recycle(r) ==
    /\ rq[r].pc = "done"
    /\ rq' = [rq EXCEPT ![r] = Idle]
    /\ UNCHANGED <<store, usedIds, inserted, cache, isOpen, clock, watch>>

(* ---------------------------- environment ----------------------------- *)

\* the steps by which time advances: a second, or just short of the TTL
TickSteps == {1, CACHE_TTL - 1}

\* time passes; Redis drops the key when its time to live is over
Tick ==
    /\ clock.ticks < MaxTicks
    /\ \E d \in TickSteps :
         /\ clock' = [now |-> now + d, ticks |-> clock.ticks + 1]
         /\ cache' = IF cache.val # <<>> /\ now + d >= cache.exp
                     THEN NoEntry ELSE cache
    /\ UNCHANGED <<store, usedIds, inserted, isOpen, rq, watch>>

\* the Redis connection opens (connectRedis) or closes
ToggleOpen ==
    /\ isOpen' = ~isOpen
    /\ UNCHANGED <<store, usedIds, inserted, cache, clock, rq, watch>>


(* ------------------------------ requests ------------------------------ *)

A1 == Chars("a", 1)
B1 == Chars("b", 1)
D1 == Chars("d", 1)
\* 'a'.repeat(256), as in the tests, and 'a'.repeat(255)
TooLong == Chars("a", TitleMax + 1)
Longest == Chars("a", TitleMax)

\* the ids requests name: a malformed one, one the generator hands out, and
\* a well-formed one it never does
SeqIds == {BadId, 1, MaxIds + 1}

\* POST bodies
SeqCreates ==
    { NoBody,
      Body(Str(EmptyStr), Undefined, Undefined),
      Body(Str(Chars(" ", 3)), Undefined, Undefined),
      Body(Undefined, Str(D1), Undefined),
      Body(Null, Undefined, Undefined),
      Body(Str(Padded(A1)), Undefined, Undefined),
      Body(Str(Padded(A1 \o Chars(" ", 1) \o B1)), Str(Padded(D1)), Str(Completed)),
      Body(Str(A1), Null, Str(Pending)),
      Body(Str(TooLong), Undefined, Undefined),
      Body(Str(Padded(TooLong)), Str(D1), Str(Completed)),
      Body(Str(Padded(Longest)), Undefined, Undefined),
      Body(Str(TooLong), Num(5), Undefined),
      Body(Str(A1), Num(5), Undefined),
      Body(Num(123), Undefined, Undefined),
      Body(Str(A1), Undefined, Str(Word("done"))),
      Body(Str(A1), Undefined, Str(Word("PENDING"))),
      Body(Str(A1), Undefined, Str(EmptyStr)),
      Body(Str(A1), Undefined, Num(0)),
      Body(Str(A1), Undefined, Bool(FALSE)),
      Body(Str(A1), Undefined, Null),
      Body(Str(A1), Undefined, Num(123)),
      Body(Str(A1), Undefined, Bool(TRUE)) }

\* PATCH bodies
SeqUpdates ==
    { NoBody,
      Body(Str(Padded(B1)), Undefined, Undefined),
      Body(Str(Chars(" ", 3)), Undefined, Undefined),
      Body(Str(TooLong), Undefined, Undefined),
      Body(Num(5), Undefined, Undefined),
      Body(Undefined, Str(Padded(D1)), Undefined),
      Body(Undefined, Num(5), Undefined),
      Body(Undefined, Undefined, Str(Completed)),
      Body(Undefined, Undefined, Str(Word("done"))),
      Body(Undefined, Undefined, Str(Word("COMPLETED"))),
      Body(Undefined, Undefined, Num(123)),
      Body(Str(B1), Undefined, Str(Word("done"))),
      Body(Undefined, Undefined, Bool(TRUE)),
      Body(Undefined, Undefined, Null),
      Body(Undefined, Undefined, Str(EmptyStr)),
      Body(Undefined, Str(Padded(D1)), Str(Word("done"))),
      Body(Num(5), Undefined, Str(Word("done"))) }

ConcCreates == { Body(Str(Padded(A1)), Undefined, Undefined) }
ConcUpdates == { Body(Undefined, Undefined, Str(Completed)) }
\* PATCH bodies that race for the same task: two titles, one with a status
RaceUpdates ==
    { Body(Str(Padded(B1)), Undefined, Undefined),
      Body(Str(D1), Undefined, Str(Completed)) }

\* bodies that take a Create down each path of its handler: no title, a
\* title that is no string, one the validators refuse, a status the
\* database refuses, and a task that is stored
PathCreates ==
    { NoBody,
      Body(Num(123), Undefined, Undefined),
      Body(Str(TooLong), Undefined, Undefined),
      Body(Str(A1), Undefined, Str(Word("done"))),
      Body(Str(Padded(A1)), Undefined, Undefined) }

\* bodies that take an Update down each path of its handler: nothing to
\* change, a title that is no string, an invalid status, a title the
\* validators refuse, and a change that is saved
PathUpdates ==
    { NoBody,
      Body(Num(5), Undefined, Undefined),
      Body(Undefined, Undefined, Str(Word("done"))),
      Body(Str(TooLong), Undefined, Undefined),
      Body(Undefined, Undefined, Str(Completed)) }

(* --------------------------- specifications --------------------------- *)

\* the steps of the handlers
Handlers(P) ==
    \E r \in P.reqs :
        \/ ListStart(r)
        \/ ListGet(r, P)
        \/ ListFindAll(r, P)
        \/ ListSetEx(r, P)
        \/ GetStart(r, P)
        \/ FindByPk(r, P)
        \/ CreateStart(r, P)
        \/ TaskCreate(r, P)
        \/ UpdateStart(r, P)
        \/ TaskSave(r, P)
        \/ DeleteStart(r, P)
        \/ TaskDestroy(r, P)
        \/ clearCache(r, P)
        \/ Respond(r, P)
        \/ Recycle(r)

\* Concurrent requests and a cache that can close and fail.
Concurrent == Profile(Reqs, {1}, ConcCreates, ConcUpdates, FALSE, TRUE, FALSE)
Next == Handlers(Concurrent) \/ ToggleOpen
Spec == Init /\ [][Next]_vars

\* Concurrent requests against a cache that stays open and never fails.
CacheUp == Profile(Reqs, {1}, ConcCreates, ConcUpdates, FALSE, FALSE, TRUE)
InitUp == Init /\ isOpen
NextUp == Handlers(CacheUp)
SpecUp == InitUp /\ [][NextUp]_vars

\* One request at a time, every kind of body and id, a Store that can fail.
OneByOne == Profile({1}, SeqIds, SeqCreates, SeqUpdates, TRUE, FALSE, FALSE)
NextSeq == Handlers(OneByOne)
SpecSeq == Init /\ [][NextSeq]_vars

\* One request at a time while time passes and the cache closes and fails.
Timed == Profile({1}, {1}, ConcCreates, ConcUpdates, FALSE, TRUE, FALSE)
NextTime == Handlers(Timed) \/ Tick \/ ToggleOpen
SpecTime == Init /\ [][NextTime]_vars

\* One request at a time, every kind of body, while time passes.
Living == Profile({1}, {1}, SeqCreates, SeqUpdates, FALSE, FALSE, FALSE)
NextLife == Handlers(Living) \/ Tick
SpecLife == Init /\ [][NextLife]_vars

\* Concurrent requests with Updates of different fields of the same task.
Racing == Profile(Reqs, {1}, ConcCreates, RaceUpdates, FALSE, FALSE, FALSE)
NextRace == Handlers(Racing)
SpecRace == Init /\ [][NextRace]_vars

\* Concurrent requests while the Redis client is never open (connectRedis
\* failed and was logged): Store queries can fail
Down == Profile(Reqs, {1}, ConcCreates, RaceUpdates, TRUE, TRUE, FALSE)
InitDown == Init /\ ~isOpen
NextDown == Handlers(Down)
SpecDown == InitDown /\ [][NextDown]_vars

\* the step a handler takes when the call it awaits has settled, and the
\* sending of its response
Continue(r, P) ==
    \/ ListGet(r, P)
    \/ ListFindAll(r, P)
    \/ ListSetEx(r, P)
    \/ FindByPk(r, P)
    \/ TaskCreate(r, P)
    \/ TaskSave(r, P)
    \/ TaskDestroy(r, P)
    \/ clearCache(r, P)
    \/ Respond(r, P)

\* Requests one after another, with every id and body, Store queries and
\* cache commands that can fail and a client that opens and closes; every
\* call that is awaited settles, and the handler then goes on.
Settling == Profile({1}, SeqIds, PathCreates, PathUpdates, TRUE, TRUE, FALSE)
NextSettle == Handlers(Settling) \/ ToggleOpen
SpecSettle ==
    /\ Init /\ [][NextSettle]_vars
    /\ \A r \in Settling.reqs : WF_vars(Continue(r, Settling))

\* no other request than r is in flight
Quiet(r) == \A q \in Reqs \ {r} : ~InFlight(q)
\* no List is in flight
NoListInFlight == \A q \in Reqs : ~(rq[q].op = "list" /\ InFlight(q))

\* Concurrent mutations and Gets, and Lists that no other request
\* overlaps: a List starts when nothing is in flight, and nothing starts
\* while a List is.  The cache does not fail and stays as it started, open
\* or closed.
Bursting == Profile(Reqs, {1}, ConcCreates, ConcUpdates, FALSE, FALSE, FALSE)
NextBurst ==
    \E r \in Reqs :
        \/ Quiet(r) /\ ListStart(r)
        \/ ListGet(r, Bursting)
        \/ ListFindAll(r, Bursting)
        \/ ListSetEx(r, Bursting)
        \/ NoListInFlight /\ GetStart(r, Bursting)
        \/ FindByPk(r, Bursting)
        \/ NoListInFlight /\ CreateStart(r, Bursting)
        \/ TaskCreate(r, Bursting)
        \/ NoListInFlight /\ UpdateStart(r, Bursting)
        \/ TaskSave(r, Bursting)
        \/ NoListInFlight /\ DeleteStart(r, Bursting)
        \/ TaskDestroy(r, Bursting)
        \/ clearCache(r, Bursting)
        \/ Respond(r, Bursting)
        \/ Recycle(r)
SpecBurst == Init /\ [][NextBurst]_vars

(* ------------------------------- claims ------------------------------- *)

\* a request that has its response
Done(r) == rq[r].pc = "done"
IsList(r) == rq[r].op = "list"
IsMutation(r) == rq[r].op \in Mutations
ById(r) == rq[r].op \in {"get", "update", "delete"}
\* request r takes a step
Steps(r, from) == rq[r].pc = from /\ rq'[r].pc # from

\* C1: once a successful Create, Update or Delete has responded, the next
\* List to arrive does not answer from the cache with the listing that was
\* cached before that mutation's write.
C1_NextListNotPreMutationSnapshot ==
    \A r \in Reqs :
        (Done(r) /\ IsList(r) /\ rq[r].mark /\ rq[r].hit)
            => JSONOfPlain(rq[r].out.json) # watch.snap[1]

\* C2: a List whose cache read finds the listing key (the client open, the
\* entry unexpired, the read not failing) answers 200 with exactly the
\* cached text, its objects in the cached order, and makes no Store query;
\* and a List that hits what another List has cached gives the same
\* response as that List.
C2_HitServesCacheVerbatim ==
    /\ [](\A r \in Reqs :
            (IsList(r) /\ rq[r].hit) =>
                /\ rq[r].reads = 0
                /\ rq[r].out.status = 200
                /\ rq[r].out.json = rq[r].seen[1].json)
    /\ [](\A r1, r2 \in Reqs :
            ( /\ Done(r1) /\ IsList(r1) /\ rq[r1].put # <<>>
              /\ Done(r2) /\ IsList(r2) /\ rq[r2].hit
              /\ rq[r2].seen[1] = rq[r1].put[1].text )
                => rq[r2].out = rq[r1].out /\ rq[r2].reads = 0)
    /\ [][\A r \in Reqs :
            ( /\ Steps(r, "get") /\ isOpen
              /\ cache.val # <<>> /\ now < cache.exp
              /\ rq'[r].out.status # 500 )
                => /\ rq'[r].hit /\ rq'[r].pc = "respond"
                   /\ rq'[r].out.status = 200
                   /\ rq'[r].out.json = cache.val[1].json
                   /\ rq'[r].reads = 0
        ]_vars

\* C2's case: one List has cached two tasks, another has been served them
C2_Witness ==
    \E r1, r2 \in Reqs :
        /\ Done(r1) /\ IsList(r1) /\ rq[r1].put # <<>>
        /\ Done(r2) /\ IsList(r2) /\ rq[r2].hit
        /\ rq[r2].seen[1] = rq[r1].put[1].text
        /\ Len(rq[r2].out.json) = 2

\* tasks is the whole table, newest first
IsListingOf(tasks, st) ==
    /\ Len(tasks) = Cardinality(DOMAIN st)
    /\ {tasks[i] : i \in 1 .. Len(tasks)} = {st[i] : i \in DOMAIN st}
    /\ \A i, j \in 1 .. Len(tasks) :
          i < j => tasks[i].createdAt >= tasks[j].createdAt

\* C3: a List that misses reads the whole table ordered by createdAt
\* descending; with the cache open and setEx not failing it then writes
\* that listing under the key with a time to live of 300 seconds, replacing
\* what was there, and answers 200 with the same listing.  A cached empty
\* listing is a hit like any other.
C3_MissReadsCachesReturns ==
    /\ [][\A r \in Reqs :
            /\ (Steps(r, "findAll") /\ rq'[r].pc = "setEx")
                  => IsListingOf(rq'[r].tasks, store)
            /\ (Steps(r, "setEx") /\ isOpen /\ rq'[r].out.status = 200)
                  => /\ rq'[r].put # <<>>
                     /\ rq'[r].put[1].ttl = 300
                     /\ cache'.val = <<rq'[r].put[1].text>>
                     /\ cache'.exp = now + 300
                     /\ rq'[r].put[1].text.json =
                            [i \in 1 .. Len(rq[r].tasks) |->
                                TaskToJSON(rq[r].tasks[i])]
                     /\ rq'[r].out.json = rq'[r].put[1].text.json
            /\ (Steps(r, "get") /\ rq'[r].pc = "findAll")
                  => (~isOpen \/ cache.val = <<>> \/ now >= cache.exp)
        ]_vars

\* C3's case: a List missed, read two tasks of different age, cached and
\* returned them
C3_Witness ==
    \E r \in Reqs :
        /\ Done(r) /\ IsList(r) /\ rq[r].put # <<>>
        /\ Len(rq[r].out.json) = 2
        /\ rq[r].tasks[1].createdAt > rq[r].tasks[2].createdAt
        /\ cache.val = <<rq[r].put[1].text>>

\* C4: a List never answers with an error status because of the cache: it
\* answers 200 whether the cache is closed or its read or write fails.
C4_ListSurvivesCacheFailure ==
    \A r \in Reqs : (Done(r) /\ IsList(r)) => rq[r].out.status = 200

C6_InvalidationNeverFailsMutation ==
    /\ [](\A r \in Reqs :
            (IsMutation(r) /\ rq[r].clears = 1) =>
                /\ rq[r].out.status = IF rq[r].op = "create" THEN 201 ELSE 200
                /\ rq[r].out.kind # "error")
    /\ [][\A r \in Reqs :
            Steps(r, "clearCache") =>
                /\ store' = store
                /\ rq'[r].out = rq[r].out
                /\ rq'[r].pc = "respond"
                /\ (cache.val = <<>> => cache' = cache)
        ]_vars

\* C6's case: the del of a Create failed, the 201 went out, the row is there
C6_Witness ==
    \E r \in Reqs :
        /\ Done(r) /\ rq[r].op = "create" /\ rq[r].del = "threw"
        /\ rq[r].out.status = 201
        /\ rq[r].task[1].id \in DOMAIN store
        /\ cache.val # <<>>

\* C7: Get, Update and Delete of an id that is no UUID answer 400 and send
\* no query to the Store.
C7_BadIdRejectedBeforeStore ==
    \A r \in Reqs :
        (Done(r) /\ ById(r) /\ ~IsUUID(rq[r].id)) =>
            /\ rq[r].out.status = 400
            /\ rq[r].reads = 0

\* C8: Get, Update and Delete of a well-formed id that names no row answer
\* 404 whatever the body, when the lookup itself does not fail, and write
\* nothing to the Store.
C8_UnknownIdNotFound ==
    /\ [](\A r \in Reqs :
            ( /\ Done(r) /\ ById(r) /\ IsUUID(rq[r].id) /\ ~rq[r].fault
              /\ rq[r].id \notin DOMAIN store /\ rq[r].writes = 0 )
                => /\ rq[r].out.status = 404
                   /\ rq[r].out.kind = "error")
    /\ [][\A r \in Reqs :
            ( /\ Steps(r, "findByPk") /\ IsUUID(rq[r].id)
              /\ rq[r].id \notin DOMAIN store /\ ~rq'[r].fault )
                => /\ rq'[r].out.status = 404
                   /\ rq'[r].pc = "respond"
                   /\ store' = store
        ]_vars

\* C8's case: a PATCH with an invalid status for an id never handed out
C8_Witness ==
    \E r \in Reqs :
        /\ Done(r) /\ rq[r].op = "update" /\ rq[r].id = MaxIds + 1
        /\ ~InEnum(rq[r].body.status) /\ rq[r].body.status.t = "string"
        /\ rq[r].out.status = 404
        /\ store # <<>>

\* the title is missing, empty after trimming, or too long after trimming
TitleRejected(t) ==
    \/ t.t = "undefined"
    \/ IsString(t) /\ Trim(t.s) = EmptyStr
    \/ IsString(t) /\ StrLen(Trim(t.s)) > 255

\* C9: a Create whose title is missing, empty after trimming or longer than
\* 255 characters after trimming answers 400 and persists nothing.
C9_BadTitleRejected ==
    \A r \in Reqs :
        (Done(r) /\ rq[r].op = "create" /\ TitleRejected(rq[r].body.title)) =>
            /\ rq[r].out.status = 400
            /\ rq[r].writes = 0

\* a Create body the specification accepts
ValidCreate(b) ==
    /\ IsString(b.title) /\ ~TitleRejected(b.title)
    /\ IsNullish(b.description) \/ IsString(b.description)
    /\ b.status.t = "undefined" \/ b.status \in {Str(Pending), Str(Completed)}

\* t is s without the whitespace at its two ends
IsTrimOf(t, s) ==
    /\ t # <<>> => ~IsWs(t[1].c) /\ ~IsWs(t[Len(t)].c)
    /\ \E i \in 0 .. Len(s) : \E j \in i .. Len(s) :
          /\ t = SubSeq(s, i + 1, j)
          /\ \A k \in (1 .. i) \cup ((j + 1) .. Len(s)) : IsWs(s[k].c)

\* the Task a valid body asks for, but for its id and its timestamps
Expected(b, row) ==
    /\ IsTrimOf(row.title, b.title.s)
    /\ IF IsNullish(b.description) THEN row.description = <<>>
       ELSE IsTrimOf(row.description, b.description.s)
    /\ row.status = IF b.status.t = "undefined" THEN Pending ELSE b.status.s

\* C10: a Create with a valid body, when the INSERT does not fail, answers
\* 201 with a Task whose title and description are the trimmed input (the
\* description empty when absent) and whose status is the input's or
\* 'pending'; that Task is the row inserted, and its id was never the id of
\* a row before, deleted ones included.
C10_CreateNormalisesAndPersists ==
    /\ [](\A r \in Reqs :
            ( /\ rq[r].op = "create" /\ ValidCreate(rq[r].body)
              /\ rq[r].pc \in {"clearCache", "respond", "done"} /\ ~rq[r].fault )
                => /\ rq[r].out.status = 201
                   /\ rq[r].out.kind = "task"
                   /\ rq[r].out.json = <<TaskToJSON(rq[r].task[1])>>
                   /\ Expected(rq[r].body, rq[r].task[1]))
    /\ [][\A r \in Reqs :
            (Steps(r, "create") /\ rq'[r].pc = "clearCache") =>
                LET row == rq'[r].task[1]
                IN  /\ row.id \notin usedIds
                    /\ row.id \notin DOMAIN store
                    /\ store' = [i \in DOMAIN store \cup {row.id} |->
                                    IF i = row.id THEN row ELSE store[i]]
        ]_vars

\* C10's case: a padded title and description and a status were sent, after
\* a task had been deleted
C10_Witness ==
    \E r \in Reqs :
        /\ Done(r) /\ rq[r].op = "create" /\ rq[r].out.status = 201
        /\ rq[r].body.status = Str(Completed)
        /\ rq[r].body.description.s # rq[r].task[1].description
        /\ rq[r].body.title.s # rq[r].task[1].title
        /\ usedIds # DOMAIN store

\* the description is one the handlers can trim: absent or a string
PlainDescription(b) == b.description.t = "undefined" \/ IsString(b.description)

\* C11: a Create whose title and description are in order and whose status
\* is present but is not the string 'pending' or 'completed' answers 400 and
\* writes nothing.
C11_PresentBadStatusRejected ==
    \A r \in Reqs :
        ( /\ Done(r) /\ rq[r].op = "create"
          /\ IsString(rq[r].body.title) /\ ~TitleRejected(rq[r].body.title)
          /\ PlainDescription(rq[r].body)
          /\ rq[r].body.status.t # "undefined" /\ ~InEnum(rq[r].body.status)
          /\ ~rq[r].fault )
            => /\ rq[r].out.status = 400
               /\ rq[r].writes = 0

\* C12: an Update of an existing task whose status is present but is not
\* the string 'pending' or 'completed' answers 400 and leaves the row as it
\* was, whatever else the body carries.
C12_BadStatusLeavesTaskUnmodified ==
    \A r \in Reqs :
        ( /\ Done(r) /\ rq[r].op = "update" /\ rq[r].found = "row"
          /\ rq[r].body.status.t # "undefined" /\ ~InEnum(rq[r].body.status) )
            => /\ rq[r].out.status = 400
               /\ rq[r].writes = 0

\* the title of the body is a string that is empty after trimming
BlankTitle(b) == IsString(b.title) /\ Trim(b.title.s) = EmptyStr

C14_PersistedTasksWellFormed ==
    \A i \in DOMAIN store :
        /\ store[i].id = i
        /\ TrimStart(store[i].title) # <<>>
        /\ StrLen(store[i].title) <= 255
        /\ store[i].status \in {Word("pending"), Word("completed")}
        /\ store[i].createdAt <= store[i].updatedAt

\* C14's case: a task with the longest title was updated later, and an
\* Update with a title of blanks and a Create with an unknown status were
\* answered with 400
C14_Witness ==
    /\ \E i \in DOMAIN store :
          /\ StrLen(store[i].title) = 255
          /\ store[i].createdAt < store[i].updatedAt
          /\ store[i].status = Completed
    /\ \E r \in Reqs :
          /\ Done(r) /\ rq[r].op = "update" /\ rq[r].out.status = 400
          /\ rq[r].found = "row"

\* field f of the row is what body value v asks for: kept when v is absent,
\* else the trimmed string
FieldAsAsked(new, old, v) ==
    IF v.t = "undefined" THEN new = old ELSE IsTrimOf(new, v.s)

\* C15: the write of a successful Update changes, in the row it names, the
\* title, description and status that the body carries, to the trimmed
\* title and description and to the status given; it keeps the fields the
\* body does not carry, the id and createdAt, and changes no other row.
C15_UpdateWritesOnlyGivenFields ==
    [][\A r \in Reqs :
          (rq[r].op = "update" /\ Steps(r, "save") /\ rq'[r].pc = "clearCache")
            => LET id == rq[r].id
                   b == rq[r].body
               IN  /\ DOMAIN store' = DOMAIN store
                   /\ id \in DOMAIN store
                   /\ \A j \in DOMAIN store \ {id} : store'[j] = store[j]
                   /\ store'[id].id = id
                   /\ store'[id].createdAt = store[id].createdAt
                   /\ FieldAsAsked(store'[id].title, store[id].title, b.title)
                   /\ FieldAsAsked(store'[id].description,
                                   store[id].description, b.description)
                   /\ IF b.status.t = "undefined"
                      THEN store'[id].status = store[id].status
                      ELSE /\ store'[id].status = b.status.s
                           /\ b.status.s \in {Word("pending"), Word("completed")}
                   /\ rq'[r].out.status = 200
                   /\ rq'[r].out.json = <<TaskToJSON(store'[id])>>
      ]_vars

\* C15's case: a later PATCH of the title alone has answered 200; the task
\* has the new title, the description and status it was created with and
\* its createdAt, and the other task is there
C15_Witness ==
    \E r \in Reqs :
        /\ Done(r) /\ rq[r].op = "update" /\ rq[r].out.status = 200
        /\ rq[r].body = Body(Str(Padded(B1)), Undefined, Undefined)
        /\ rq[r].id \in DOMAIN store
        /\ store[rq[r].id].title = B1
        /\ store[rq[r].id].description = D1
        /\ store[rq[r].id].status = Completed
        /\ store[rq[r].id].createdAt < store[rq[r].id].updatedAt
        /\ Cardinality(DOMAIN store) = 2

\* the id was a task's and is no row's now: the task was deleted
Deleted(i) == i \in usedIds /\ i \notin DOMAIN store

\* C16: when a Delete has answered 200 the row of its id is gone; an id
\* whose row is gone never names a row again; and every lookup of such an
\* id by a Get, Update or Delete answers 404 and writes nothing, whatever
\* runs beside it.
C16_DeletedIdStaysNotFound ==
    /\ [](\A r \in Reqs :
            (Done(r) /\ rq[r].op = "delete" /\ rq[r].out.status = 200)
                => Deleted(rq[r].id))
    /\ [][\A i \in UUIDs : Deleted(i) => Deleted(i)']_vars
    /\ [][\A r \in Reqs :
            (ById(r) /\ Steps(r, "findByPk") /\ Deleted(rq[r].id))
                => /\ rq'[r].pc = "respond"
                   /\ rq'[r].out.status = 404
                   /\ store' = store
        ]_vars
    /\ [](\A r \in Reqs :
            (Done(r) /\ ById(r) /\ rq[r].found = "gone")
                => rq[r].out.status = 404 /\ rq[r].writes = 0)

\* C16's case: a Delete has answered 200, another task has been created
\* since, and an Update of the deleted id is answered 404
C16_Witness ==
    \E r1, r2 \in Reqs :
        /\ Done(r1) /\ rq[r1].op = "delete" /\ rq[r1].out.status = 200
        /\ Done(r2) /\ rq[r2].op = "update" /\ rq[r2].id = rq[r1].id
        /\ rq[r2].found = "gone"
        /\ rq[r2].out.status = 404
        /\ store # <<>>

\* request r writes the row of id i in this step
WritesRow(r, i) ==
    /\ IsMutation(r) /\ rq'[r].writes = rq[r].writes + 1
    /\ \/ rq[r].op = "create" /\ rq'[r].task # <<>> /\ rq'[r].task[1].id = i
       \/ rq[r].op \in {"update", "delete"} /\ rq[r].id = i

\* C17: requests running one after another.  The 201 of a Create and the
\* 200 of an Update carry the row as that request's write left it; a row
\* changes or goes only by the write of an Update or Delete of its id; and
\* a Get that finds the row answers 200 with the row as it is.  So a Get
\* with no Update or Delete of the id in between returns, in every field,
\* the Task the Create or Update returned.
C17_GetReturnsWhatWasReturned ==
    /\ [][\A r \in Reqs :
            ( /\ rq[r].op \in {"create", "update"}
              /\ rq[r].pc \in {"create", "save"} /\ rq'[r].pc = "clearCache" )
                => LET i == rq'[r].task[1].id
                   IN  /\ i \in DOMAIN store'
                       /\ rq'[r].out.status =
                             IF rq[r].op = "create" THEN 201 ELSE 200
                       /\ rq'[r].out.kind = "task"
                       /\ rq'[r].out.json = <<TaskToJSON(store'[i])>>
        ]_vars
    /\ [][\A i \in DOMAIN store :
            (i \notin DOMAIN store' \/ store'[i] # store[i])
                => \E r \in Reqs :
                      rq[r].op \in {"update", "delete"} /\ WritesRow(r, i)
        ]_vars
    /\ [][\A r \in Reqs :
            ( /\ rq[r].op = "get" /\ Steps(r, "findByPk")
              /\ rq[r].id \in DOMAIN store /\ ~rq'[r].fault )
                => /\ rq'[r].out.status = 200
                   /\ rq'[r].out.kind = "task"
                   /\ rq'[r].out.json = <<TaskToJSON(store[rq[r].id])>>
                   /\ store' = store
        ]_vars
    /\ [][\A r \in Reqs :
            (rq[r].pc \in {"clearCache", "respond", "done"} /\ IsMutation(r))
                => (rq'[r].out = rq[r].out \/ rq'[r].pc = "idle")
        ]_vars

\* C17's case: a Get has returned a task that was created and later
\* updated, with the timestamps of both
C17_Witness ==
    \E r \in Reqs :
        /\ Done(r) /\ rq[r].op = "get" /\ rq[r].out.status = 200
        /\ rq[r].id \in DOMAIN store
        /\ rq[r].out.json = <<TaskToJSON(store[rq[r].id])>>
        /\ store[rq[r].id].createdAt < store[rq[r].id].updatedAt
        /\ store[rq[r].id].title = B1

\* the place of id i in the order of the INSERTs
InsertedAt(i) == CHOOSE k \in 1 .. Len(inserted) : inserted[k] = i

\* C18: every List that answers 200, from the Store or from the cache,
\* returns the tasks in the reverse of the order of their creation: a task
\* created later comes first.
C18_ListNewestFirst ==
    \A r \in Reqs :
        (Done(r) /\ IsList(r) /\ rq[r].out.status = 200) =>
            \A i, j \in 1 .. Len(rq[r].out.json) :
                i < j => InsertedAt(rq[r].out.json[i].id)
                            > InsertedAt(rq[r].out.json[j].id)

\* the value the body asks for in field f: the trimmed string, the status
AskedValue(b, f) == IF f = "status" THEN b[f].s ELSE TrimEnd(TrimStart(b[f].s))

\* the UPDATE of request r sets field f: the body carries it with a value
\* other than the one r loaded
Sets(r, f) ==
    /\ rq[r].body[f].t # "undefined"
    /\ AskedValue(rq[r].body, f) # rq[r].loaded[1][f]

\* the values the requests of SpecRace supply, and those of the Create
SuppliedTitles == {A1} \cup {B1, D1}
SuppliedStatuses == {Pending, Completed}

\* C19: Updates of one existing task that overlap.  Each answers 200.  The
\* UPDATE of each sets the fields its body carries with a value other than
\* the one it loaded, to the value it asks for, and leaves the others as
\* they are in the table; nothing else changes a row; so when all have
\* completed every field has the value of the last UPDATE that set it, and
\* never a value that neither the Create nor an Update supplied.
C19_LastWriterWinsPerField ==
    /\ [](\A r \in Reqs :
            (rq[r].op = "update" /\ rq[r].found = "row"
                /\ rq[r].pc \in {"clearCache", "respond", "done"})
                => rq[r].out.status = 200)
    /\ [][\A r \in Reqs :
            ( /\ rq[r].op = "update" /\ Steps(r, "save")
              /\ rq[r].id \in DOMAIN store )
                => /\ rq'[r].pc = "clearCache"
                   /\ DOMAIN store' = DOMAIN store
                   /\ \A f \in {"title", "description", "status"} :
                         store'[rq[r].id][f] =
                            IF Sets(r, f) THEN AskedValue(rq[r].body, f)
                            ELSE store[rq[r].id][f]
                   /\ store'[rq[r].id].createdAt = store[rq[r].id].createdAt
        ]_vars
    /\ [][\A i \in DOMAIN store :
            (i \in DOMAIN store' /\ store'[i] # store[i])
                => \E r \in Reqs :
                      /\ rq[r].op = "update" /\ rq[r].id = i
                      /\ Steps(r, "save")
        ]_vars
    /\ [](\A i \in DOMAIN store :
            /\ store[i].title \in SuppliedTitles
            /\ store[i].description = <<>>
            /\ store[i].status \in SuppliedStatuses)

\* C19's case: two Updates of the same task have both loaded the row as it
\* was created, both have written and answered 200; the title is the one's
\* and the status the other's
C19_Witness ==
    \E r1, r2 \in Reqs :
        /\ r1 # r2
        /\ Done(r1) /\ rq[r1].op = "update" /\ rq[r1].out.status = 200
        /\ Done(r2) /\ rq[r2].op = "update" /\ rq[r2].out.status = 200
        /\ rq[r1].id = rq[r2].id
        /\ rq[r1].loaded = rq[r2].loaded
        /\ rq[r1].body.title = Str(Padded(B1)) /\ rq[r1].writes = 1
        /\ rq[r2].body.title = Str(D1) /\ rq[r2].writes = 1
        /\ store[rq[r1].id].title = B1
        /\ store[rq[r1].id].status = Completed

\* C20: Creates that overlap in any way, the cache not failing and no List
\* overlapping another request.  Every Create answers 201; two Creates
\* never return the same id; each INSERT adds its row and leaves the others;
\* when all slots hold Creates that have cleared the cache, the listing key
\* is absent; and a List answers 200 with exactly the rows of the table,
\* each once.
C20_ConcurrentCreatesAllListed ==
    /\ [](\A r \in Reqs :
            (rq[r].op = "create" /\ rq[r].pc \in {"clearCache", "respond", "done"})
                => /\ rq[r].out.status = 201
                   /\ rq[r].task # <<>>)
    /\ [](\A r1, r2 \in Reqs :
            ( /\ r1 # r2
              /\ rq[r1].op = "create" /\ rq[r1].task # <<>>
              /\ rq[r2].op = "create" /\ rq[r2].task # <<>> )
                => rq[r1].task[1].id # rq[r2].task[1].id)
    /\ [][\A r \in Reqs :
            (rq[r].op = "create" /\ Steps(r, "create"))
                => LET row == rq'[r].task[1]
                   IN  /\ row.id \notin DOMAIN store
                       /\ DOMAIN store' = DOMAIN store \cup {row.id}
                       /\ store'[row.id] = row
                       /\ \A i \in DOMAIN store : store'[i] = store[i]
        ]_vars
    /\ []((\A r \in Reqs : rq[r].op = "create" /\ rq[r].pc \in {"respond", "done"})
            => cache.val = <<>>)
    /\ [][\A r \in Reqs :
            (IsList(r) /\ Steps(r, "respond"))
                => /\ rq[r].out.status = 200
                   /\ Len(rq[r].out.json) = Cardinality(DOMAIN store)
                   /\ {rq[r].out.json[k] : k \in 1 .. Len(rq[r].out.json)}
                          = {TaskToJSON(store[i]) : i \in DOMAIN store}
        ]_vars

\* C20's case: two Creates overlap, both have inserted and cleared the
\* cache and hold their 201; the table has both rows and the key is absent
C20_Witness ==
    /\ isOpen
    /\ \A r \in Reqs :
          /\ rq[r].op = "create" /\ rq[r].pc = "respond"
          /\ rq[r].out.status = 201 /\ rq[r].del = "ok"
    /\ Cardinality(DOMAIN store) = MaxReq
    /\ cache.val = <<>>

\* C21: a List is served from the cache only less than 300 seconds after
\* the setEx that wrote the entry: the key is set by a List's setEx alone,
\* with an expiry of 300 seconds, it is not extended, and it is gone once
\* the expiry has passed.  So a listing that an invalidation skipped or
\* failed to remove is served for at most 300 seconds after it was cached.
C21_StalenessBoundedByTtl ==
    /\ [](cache.val # <<>> =>
            /\ cache.exp = cache.at + CACHE_TTL
            /\ now < cache.exp)
    /\ [][\A r \in Reqs :
            (Steps(r, "get") /\ rq'[r].hit)
                => /\ rq'[r].seen = cache.val
                   /\ now - cache.at < CACHE_TTL
        ]_vars
    /\ [][(cache'.val # <<>> /\ cache' # cache)
            => \E r \in Reqs :
                  /\ IsList(r) /\ Steps(r, "setEx")
                  /\ cache'.at = now
        ]_vars

\* C21's case: a Create's invalidation was skipped or failed, and 299
\* seconds after the listing was cached a List is still served the cached
\* listing, which lacks the task the Store holds
C21_Witness ==
    \E r \in Reqs :
        /\ Done(r) /\ IsList(r) /\ rq[r].hit
        /\ rq[r].seen = cache.val
        /\ now - cache.at = CACHE_TTL - 1
        /\ DOMAIN store # {}
        /\ rq[r].out.json = <<>>

\* what a request has shown and still holds, the bookkeeping of the cache
\* calls and the position in the handler left out
Visible(slot) ==
    [op |-> slot.op, id |-> slot.id, body |-> slot.body, task |-> slot.task,
     loaded |-> slot.loaded, tasks |-> slot.tasks, out |-> slot.out,
     reads |-> slot.reads, writes |-> slot.writes, fault |-> slot.fault]

\* C22: while the Redis client is never open the service behaves as one
\* without a cache.  No cache command is issued and the key stays absent;
\* the places where the handlers would call the cache (get, setEx,
\* clearCache) change neither the Store nor what the request holds; every
\* List reads the Store and answers 200 with that listing (or the Store's
\* error); a mutation's response is the one it held after its Store write.
C22_ClosedCacheIsNoCache ==
    /\ [](/\ ~isOpen /\ cache = NoEntry
          /\ \A r \in Reqs :
                /\ ~rq[r].hit /\ rq[r].seen = <<>> /\ rq[r].put = <<>>
                /\ rq[r].del = "none"
                /\ (Done(r) /\ IsList(r)) =>
                      /\ rq[r].reads = 1
                      /\ rq[r].fault \/ rq[r].out.status = 200)
    /\ [][\A r \in Reqs :
            /\ Steps(r, "get") =>
                  /\ rq'[r].pc = "findAll"
                  /\ Visible(rq'[r]) = Visible(rq[r])
                  /\ store' = store
            /\ (Steps(r, "findAll") /\ ~rq'[r].fault) =>
                  /\ IsListingOf(rq'[r].tasks, store)
                  /\ store' = store
            /\ Steps(r, "setEx") =>
                  /\ rq'[r].pc = "respond"
                  /\ rq'[r].out.status = 200
                  /\ rq'[r].out.json =
                        [i \in 1 .. Len(rq[r].tasks) |->
                            TaskToJSON(rq[r].tasks[i])]
                  /\ store' = store
            /\ Steps(r, "clearCache") =>
                  /\ rq'[r].pc = "respond"
                  /\ Visible(rq'[r]) = Visible(rq[r])
                  /\ Succeeded(rq[r])
                  /\ store' = store
        ]_vars

\* C22's case: with the client closed a Create has answered 201 after a
\* clearCache that sent nothing, and a List after it has read the Store
\* and answered with the new task
C22_Witness ==
    \E r, q \in Reqs :
        /\ ~isOpen
        /\ Done(r) /\ rq[r].op = "create" /\ rq[r].out.status = 201
        /\ rq[r].clears = 1 /\ rq[r].del = "none"
        /\ Done(q) /\ IsList(q) /\ rq[q].reads = 1
        /\ rq[q].out.status = 200
        /\ rq[q].out.json = <<TaskToJSON(rq[r].task[1])>>

\* C23: a Store query that fails for a reason that is not in the request's
\* data (the connection is lost, the database fails the statement) is
\* answered with 500; a List whose Store read fails is answered with 500.
C23_StoreFailureIs500 ==
    \A r \in Reqs :
        Done(r) =>
            /\ rq[r].fault => rq[r].out.status = 500
            /\ (IsList(r) /\ rq[r].reads = 1 /\ rq[r].out.status # 200)
                  => rq[r].out.status = 500

\* a field that is present but no string
NotAString(v) == v.t # "undefined" /\ ~IsString(v)

\* a body the spec calls malformed
Malformed(op, body) ==
    \/ NotAString(body.title)
    \/ NotAString(body.description)
    \/ op = "create" /\ body.title.t = "undefined"
    \/ /\ IsString(body.title)
       /\ StrLen(Trim(body.title.s)) \notin TitleMin .. TitleMax
    \/ body.status.t # "undefined" /\ ~InEnum(body.status)

\* C24: a Create, or an Update of an existing task, whose body is malformed
\* is answered with 400 and writes nothing to the Store, when no Store
\* query fails.
C24_MalformedBodyIs400 ==
    \A r \in Reqs :
        ( /\ Done(r) /\ ~rq[r].fault
          /\ Malformed(rq[r].op, rq[r].body)
          /\ \/ rq[r].op = "create"
             \/ rq[r].op = "update" /\ rq[r].found = "row" )
        => /\ rq[r].out.status = 400
           /\ rq[r].writes = 0

C26_UpdateCheckOrder ==
    [][\A r \in Reqs :
         (rq[r].op = "update" /\ Steps(r, "findByPk") /\ ~rq'[r].fault)
            => LET id == rq[r].id
                   b == rq[r].body
                   out == rq'[r].out
               IN  /\ store' = store
                   /\ ~IsUUID(id) =>
                         /\ out.status = 400 /\ out.error # "Invalid status"
                         /\ rq'[r].pc = "respond"
                   /\ (IsUUID(id) /\ id \notin DOMAIN store) =>
                         /\ out.status = 404 /\ out.error = "Task not found"
                         /\ rq'[r].pc = "respond"
                   /\ out.error = "Invalid status" =>
                         /\ out.status = 400
                         /\ id \in DOMAIN store
                         /\ b.status.t # "undefined" /\ ~InEnum(b.status)
                   /\ ( /\ id \in DOMAIN store
                        /\ ~NotAString(b.title) /\ ~NotAString(b.description)
                        /\ b.status.t # "undefined" /\ ~InEnum(b.status) )
                         => /\ out.status = 400 /\ out.error = "Invalid status"
                            /\ rq'[r].pc = "respond"
    ]_vars

\* C26's case: an Update that names a malformed id and carries an invalid
\* status and a title that is no string has been answered 400 for its id,
\* while the table holds a task
C26_Witness ==
    \E r \in Reqs :
        /\ Done(r) /\ rq[r].op = "update" /\ ~IsUUID(rq[r].id)
        /\ ~rq[r].fault
        /\ NotAString(rq[r].body.title)
        /\ rq[r].body.status.t = "string" /\ ~InEnum(rq[r].body.status)
        /\ rq[r].out.status = 400 /\ rq[r].out.error = "Database error"
        /\ store # <<>>

\* the serializations of the table's listings, newest first
Serializations(st) == {JSONStringify(tasks) : tasks \in Listings(st)}

\* no handler is running
BetweenRequests == \A r \in Reqs : rq[r].pc \in {"idle", "done"}

\* C27: requests run one after another and no cache command fails.
\* Whenever no handler is running the key is absent or holds the
\* serialization of the table's listing by createdAt descending, and a
\* List that has answered has answered 200 with that listing.
C27_SequentialCacheIsCurrent ==
    BetweenRequests =>
        /\ RedisGet = <<>> \/ RedisGet[1] \in Serializations(store)
        /\ cache.val = <<>> \/ cache.val[1] \in Serializations(store)
        /\ \A r \in Reqs :
              (Done(r) /\ IsList(r)) =>
                  /\ rq[r].out.status = 200
                  /\ \E text \in Serializations(store) :
                        rq[r].out.json = text.json

\* C27's case: a List has been served from the cache a listing of two
\* tasks, one of them updated after it was created, and the key still
\* holds that listing
C27_Witness ==
    \E r \in Reqs :
        /\ BetweenRequests /\ isOpen
        /\ Done(r) /\ IsList(r) /\ rq[r].hit
        /\ RedisGet = rq[r].seen
        /\ Len(rq[r].out.json) = 2
        /\ \E i \in DOMAIN store : store[i].updatedAt > store[i].createdAt

\* C28: under concurrent requests the key holds only what one List wrote,
\* and a List writes the serialization of the result of its one findAll,
\* which is the whole table as it was at the instant of that query, in
\* createdAt-descending order; the result is not touched between the
\* query and the setEx.  So every cached value is the complete listing of
\* one earlier state of the Store.
C28_CacheHoldsOneSnapshot ==
    /\ [][\A r \in Reqs :
            (Steps(r, "findAll") /\ rq'[r].pc = "setEx")
                => /\ IsListingOf(rq'[r].tasks, store)
                   /\ store' = store
        ]_vars
    /\ [][\A r \in Reqs :
            (rq[r].pc = "setEx" /\ rq'[r].pc = "setEx")
                => rq'[r].tasks = rq[r].tasks
        ]_vars
    /\ [][(cache'.val # <<>> /\ cache'.val # cache.val)
            => \E r \in Reqs :
                  /\ IsList(r) /\ Steps(r, "setEx")
                  /\ cache'.val = <<JSONStringify(rq[r].tasks)>>
                  /\ cache'.val[1].json =
                        [i \in 1 .. Len(rq[r].tasks) |->
                            TaskToJSON(rq[r].tasks[i])]
        ]_vars

\* C28's case: a List read the table, an Update overlapping it changed
\* the task and cleared the key, and the List then cached what it had
\* read: the key holds the listing of the earlier state, whole, and not
\* that of the table as it is
C28_Witness ==
    \E r \in Reqs :
        /\ Done(r) /\ IsList(r) /\ rq[r].put # <<>>
        /\ cache.val = <<rq[r].put[1].text>>
        /\ Len(rq[r].tasks) = 1
        /\ cache.val[1] = JSONStringify(rq[r].tasks)
        /\ cache.val[1] \notin Serializations(store)
        /\ DOMAIN store = {rq[r].tasks[1].id}
        /\ store[rq[r].tasks[1].id].title # rq[r].tasks[1].title

\* C29: a Create, Update or Delete that is answered with anything but 200
\* or 201 (a rejected title or status, a malformed or unknown id, a failed
\* validation, a failed Store query) has written nothing to the Store and
\* has not called clearCache: a step of a mutation that changes the Store
\* or the key belongs to a request that holds its 200 or 201 and keeps it.
C29_FailedMutationChangesNothing ==
    /\ [](\A r \in Reqs :
            ( /\ IsMutation(r) /\ rq[r].pc \in {"respond", "done"}
              /\ ~Succeeded(rq[r]) )
                => /\ rq[r].writes = 0
                   /\ rq[r].clears = 0 /\ rq[r].del = "none"
                   /\ rq[r].preSnap = <<>>)
    /\ [][\A r \in Reqs :
            ( /\ IsMutation(r) /\ rq'[r] # rq[r] /\ rq'[r].op = rq[r].op
              /\ ~Succeeded(rq'[r]) )
                => /\ store' = store
                   /\ cache' = cache
                   /\ usedIds' = usedIds
        ]_vars
    /\ [][\A r \in Reqs :
            (IsMutation(r) /\ Succeeded(rq[r]) /\ rq'[r].op = rq[r].op)
                => rq'[r].out = rq[r].out
        ]_vars

\* C29's case: an Update whose save the Store failed has been answered
\* with the error; the task is as it was and the key still holds the
\* listing cached before
C29_Witness ==
    \E r \in Reqs :
        /\ Done(r) /\ rq[r].op = "update" /\ rq[r].fault
        /\ rq[r].reads = 2 /\ rq[r].writes = 0 /\ rq[r].clears = 0
        /\ rq[r].out.status \in {400, 500}
        /\ rq[r].id \in DOMAIN store
        /\ store[rq[r].id] = rq[r].loaded[1]
        /\ RedisGet # <<>> /\ RedisGet[1] \in Serializations(store)

\* C30: the DELETE of a Delete removes the row of its id; the save of an
\* Update that loaded the task before, and finds the row gone, changes
\* nothing in the Store; and a row appears only by the INSERT of a
\* Create, under an id never used before.  So under every interleaving no
\* state after a Delete's commit holds that id again.
C30_DeleteIsFinal ==
    /\ [][\A r \in Reqs :
            (rq[r].op = "delete" /\ Steps(r, "destroy") /\ ~rq'[r].fault)
                => /\ rq[r].id \notin DOMAIN store'
                   /\ rq[r].id \in usedIds'
        ]_vars
    /\ [][\A r \in Reqs :
            ( /\ rq[r].op = "update" /\ Steps(r, "save")
              /\ rq[r].id \notin DOMAIN store )
                => /\ store' = store
                   /\ rq[r].id \in usedIds'
        ]_vars
    /\ [][\A i \in DOMAIN store' \ DOMAIN store :
            /\ i \notin usedIds
            /\ \E r \in Reqs : rq[r].op = "create" /\ Steps(r, "create")
        ]_vars

\* C30's case: an Update loaded the task, a Delete overlapping it removed
\* the row and answered 200, and the Update then saved its new title and
\* answered 200: the table has no row of that id
C30_Witness ==
    \E r, q \in Reqs :
        /\ Done(q) /\ rq[q].op = "delete" /\ rq[q].out.status = 200
        /\ Done(r) /\ rq[r].op = "update" /\ rq[r].id = rq[q].id
        /\ rq[r].found = "row" /\ rq[r].missed
        /\ rq[r].out.status = 200
        /\ rq[r].out.json[1].title # rq[r].loaded[1].title
        /\ rq[r].id \notin DOMAIN store

\* the responses a handler sends itself
ExplicitErrors == {RespTitleRequired, RespInvalidStatus, RespNotFound}
\* the responses of the error handler
HandlerErrors ==
    {errorHandler(n) : n \in {"SequelizeValidationError",
                               "SequelizeDatabaseError", "Error"}}

\* C31: when every awaited Store and cache call settles, every request
\* that has arrived is answered: its handler reaches the sending of a
\* response and the response leaves.  A request is answered once: nothing
\* is sent before its handler has ended, one response when it has, and the
\* response does not change once the handler has chosen it.  The response
\* is a 200 or 201, one of the handler's own 400 and 404, or the error
\* handler's.
C31_EveryRequestAnsweredOnce ==
    /\ [](\A r \in Reqs :
            /\ rq[r].sent = IF Done(r) THEN 1 ELSE 0
            /\ rq[r].pc \in {"respond", "done"} =>
                  \/ Succeeded(rq[r])
                  \/ rq[r].out \in ExplicitErrors
                  \/ rq[r].out \in HandlerErrors)
    /\ [][\A r \in Reqs :
            (rq[r].pc \in {"respond", "done"} /\ rq'[r].pc # "idle")
                => /\ rq'[r].out = rq[r].out
                   /\ rq'[r].pc \in {"respond", "done"}
                   /\ rq'[r].sent >= rq[r].sent
        ]_vars
    /\ \A r \in Reqs : InFlight(r) ~> Done(r)

\* C31's case: a List read the Store, its setEx was rejected, the error
\* went to the error handler, and the one response, a 500, has been sent
C31_Witness ==
    \E r \in Reqs :
        /\ Done(r) /\ IsList(r) /\ rq[r].sent = 1
        /\ rq[r].reads = 1 /\ ~rq[r].fault /\ rq[r].put = <<>>
        /\ rq[r].out = errorHandler("Error")
        /\ store # <<>>

=============================================================================
